---- MODULE Spec2Model ----
(***************************************************************************)
(* State-machine model of the SolPot Anchor program                        *)
(* (anchor/programs/solpot/src/lib.rs): game registry, round escrow,       *)
(* player entries, guess records, leaderboard.                             *)
(*                                                                         *)
(* Every instruction is one atomic transaction: it either commits all of   *)
(* its writes or none.  For each instruction, <name>_err computes the      *)
(* first check that rejects the call ("Ok" when none does), in the order   *)
(* Anchor's account validation and the handler evaluate them; the action   *)
(* of the instruction is enabled exactly when that result is "Ok".  A      *)
(* rejected call leaves every account as it was.                           *)
(***************************************************************************)
EXTENDS Integers, Sequences, FiniteSets, TLC

\* ------------------------------------------------------------------ bounds

\* Rounds that create_round may create in one behaviour.
MaxRounds == 1
\* Largest value of the clock sysvar in one behaviour.
MaxTime == 1

\* ---------------------------------------------------------- input domains

\* Wallets that sign transactions; "op" deploys the program.
Accounts == {"op", "p1", "p2"}
Deployers == {"op"}
\* Opening wallet balances: a player can pay one entry fee, the deployer two.
PlayerLamports == 1000
DeployerLamports == 2000

EntryFees == {1000}
FeeBasisPoints == {333, 500, 1001}
MaxPlayersChoices == {1, 3}
Durations == {0, 1}

\* Guess texts: strings over a two-letter alphabet with both cases.
Guesses == {<<"a">>, <<"A">>, <<"b">>}

\* ------------------------------------------------------ program constants

MAX_ENTRIES == 50
default_pubkey == "11111111111111111111111111111111"

\* Rent-exempt minimum of a Round account (Round::SIZE = 157 bytes).
min_balance == 1983600

\* ------------------------------------------------------------------ state

VARIABLES
    game_config,    \* the GameConfig account
    rounds,         \* round id -> Round account (with its lamports)
    player_entry,   \* <<round id, player>> -> PlayerEntry account
    guess_record,   \* set of <<round id, player>> with a GuessRecord account
    leaderboard,    \* Leaderboard.entries
    lamports,       \* wallet -> balance
    now,            \* Clock::get().unix_timestamp
    ledger          \* round id -> lamports moved into and out of its escrow

vars == <<game_config, rounds, player_entry, guess_record, leaderboard,
          lamports, now, ledger>>

\* ---------------------------------------------------------- pure helpers

Min(a, b) == IF a <= b THEN a ELSE b

to_lowercase_char(c) == IF c = "A" THEN "a" ELSE IF c = "B" THEN "b" ELSE c

to_lowercase(s) == [i \in 1..Len(s) |-> to_lowercase_char(s[i])]

\* SHA-256 as an injective digest: equal digests iff equal byte strings.
hash(bytes) == <<"sha256", bytes>>

WordHashes == {hash(<<"a">>)}

is_correct(round, guess) == hash(to_lowercase(guess)) = round.word_hash

\* An insertion that puts the entry ahead of the entries with equal wins.
RECURSIVE insert_sorted_unstable(_, _)
insert_sorted_unstable(e, s) ==
    IF s = <<>> THEN <<e>>
    ELSE IF s[Len(s)].wins > e.wins THEN Append(s, e)
    ELSE Append(insert_sorted_unstable(e, SubSeq(s, 1, Len(s) - 1)),
                s[Len(s)])

\* Vec::sort_by(|a, b| b.wins.cmp(&a.wins)): stable, descending by wins.
RECURSIVE insert_sorted(_, _)
insert_sorted(e, s) ==
    IF s = <<>> THEN <<e>>
    ELSE IF s[Len(s)].wins >= e.wins THEN Append(s, e)
    ELSE Append(insert_sorted(e, SubSeq(s, 1, Len(s) - 1)), s[Len(s)])

RECURSIVE sort_by(_)
sort_by(s) ==
    IF s = <<>> THEN <<>>
    ELSE insert_sorted(s[Len(s)], sort_by(SubSeq(s, 1, Len(s) - 1)))

\* A full table that drops its last entry to make room for a new winner.
update_leaderboard_evict(entries, winner_key, winner_amount) ==
    LET found == {i \in 1..Len(entries) : entries[i].player = winner_key}
        fresh == [player |-> winner_key, wins |-> 1,
                  total_winnings |-> winner_amount]
    IN  IF found # {}
        THEN LET i == CHOOSE j \in found : \A k \in found : j <= k
             IN  [entries EXCEPT ![i].wins = @ + 1,
                                 ![i].total_winnings = @ + winner_amount]
        ELSE IF Len(entries) < MAX_ENTRIES
        THEN Append(entries, fresh)
        ELSE Append(SubSeq(entries, 1, Len(entries) - 1), fresh)

update_leaderboard(entries, winner_key, winner_amount) ==
    LET found == {i \in 1..Len(entries) : entries[i].player = winner_key}
    IN  IF found # {}
        THEN LET i == CHOOSE j \in found : \A k \in found : j <= k
             IN  [entries EXCEPT ![i].wins = @ + 1,
                                 ![i].total_winnings = @ + winner_amount]
        ELSE IF Len(entries) < MAX_ENTRIES
        THEN Append(entries, [player |-> winner_key, wins |-> 1,
                              total_winnings |-> winner_amount])
        ELSE entries

NoFlow == [deposited |-> 0, to_winner |-> 0, to_fee |-> 0, refunded |-> 0,
           distributions |-> 0, closes |-> "never"]

\* ------------------------------------------------------- initialize_game

initialize_game_err(fee_basis_points) ==
    IF ~(fee_basis_points <= 1000) THEN "InvalidFeeBasisPoints" ELSE "Ok"

Init ==
    /\ \E authority \in Deployers, entry_fee_lamports \in EntryFees,
          fee_basis_points \in FeeBasisPoints :
          /\ initialize_game_err(fee_basis_points) = "Ok"
          /\ game_config = [authority |-> authority,
                            round_count |-> 0,
                            entry_fee_lamports |-> entry_fee_lamports,
                            fee_basis_points |-> fee_basis_points]
    /\ rounds = <<>>
    /\ player_entry = <<>>
    /\ guess_record = {}
    /\ leaderboard = <<>>
    /\ lamports = [a \in Accounts |-> IF a \in Deployers THEN DeployerLamports
                                                      ELSE PlayerLamports]
    /\ now = 0
    /\ ledger = <<>>

\* ----------------------------------------------------------------- clock

Tick ==
    /\ now < MaxTime
    /\ now' = now + 1
    /\ UNCHANGED <<game_config, rounds, player_entry, guess_record,
                   leaderboard, lamports, ledger>>

\* ---------------------------------------------------------- create_round

create_round_err(signer) ==
    IF signer # game_config.authority THEN "ConstraintHasOne"
    ELSE "Ok"

create_round(signer, word_hash, max_players, duration_seconds) ==
    /\ create_round_err(signer) = "Ok"
    /\ LET id == game_config.round_count
           round == [id |-> id,
                     word_hash |-> word_hash,
                     is_active |-> TRUE,
                     winner |-> default_pubkey,
                     has_winner |-> FALSE,
                     pot_lamports |-> 0,
                     pot_distributed |-> FALSE,
                     nft_minted |-> FALSE,
                     player_count |-> 0,
                     max_players |-> max_players,
                     created_at |-> now,
                     expires_at |-> now + duration_seconds,
                     entry_fee_lamports |-> game_config.entry_fee_lamports,
                     lamports |-> min_balance]
       IN  /\ rounds' = (id :> round) @@ rounds
           /\ ledger' = (id :> NoFlow) @@ ledger
           /\ game_config' = [game_config EXCEPT !.round_count = @ + 1]
    /\ UNCHANGED <<player_entry, guess_record, leaderboard, lamports, now>>

CreateRound(signer, word_hash, max_players, duration_seconds) ==
    /\ game_config.round_count < MaxRounds
    /\ create_round(signer, word_hash, max_players, duration_seconds)

\* ----------------------------------------------------------- enter_round

\* enter_round with the PlayerEntry `init` replaced by `init_if_needed`.
enter_round_err_noinit(r, player) ==
    IF r \notin DOMAIN rounds THEN "AccountNotInitialized"
    ELSE IF ~rounds[r].is_active THEN "RoundNotActive"
    ELSE IF rounds[r].has_winner THEN "RoundAlreadyWon"
    ELSE IF ~(rounds[r].player_count < rounds[r].max_players)
         THEN "MaxPlayersReached"
    ELSE IF ~(now < rounds[r].expires_at) THEN "RoundExpired"
    ELSE IF lamports[player] < rounds[r].entry_fee_lamports
         THEN "ResultWithNegativeLamports"
    ELSE "Ok"

\* enter_round with the expiry test `<=` instead of `<`.
enter_round_err_le(r, player) ==
    IF r \notin DOMAIN rounds THEN "AccountNotInitialized"
    ELSE IF <<r, player>> \in DOMAIN player_entry THEN "AccountAlreadyInUse"
    ELSE IF ~rounds[r].is_active THEN "RoundNotActive"
    ELSE IF rounds[r].has_winner THEN "RoundAlreadyWon"
    ELSE IF ~(rounds[r].player_count < rounds[r].max_players)
         THEN "MaxPlayersReached"
    ELSE IF ~(now <= rounds[r].expires_at) THEN "RoundExpired"
    ELSE IF lamports[player] < rounds[r].entry_fee_lamports
         THEN "ResultWithNegativeLamports"
    ELSE "Ok"

\* enter_round with the slot test `<=` instead of `<`.
enter_round_err_slot(r, player) ==
    IF r \notin DOMAIN rounds THEN "AccountNotInitialized"
    ELSE IF <<r, player>> \in DOMAIN player_entry THEN "AccountAlreadyInUse"
    ELSE IF ~rounds[r].is_active THEN "RoundNotActive"
    ELSE IF rounds[r].has_winner THEN "RoundAlreadyWon"
    ELSE IF ~(rounds[r].player_count <= rounds[r].max_players)
         THEN "MaxPlayersReached"
    ELSE IF ~(now < rounds[r].expires_at) THEN "RoundExpired"
    ELSE IF lamports[player] < rounds[r].entry_fee_lamports
         THEN "ResultWithNegativeLamports"
    ELSE "Ok"

enter_round_err(r, player) ==
    IF r \notin DOMAIN rounds THEN "AccountNotInitialized"
    ELSE IF <<r, player>> \in DOMAIN player_entry THEN "AccountAlreadyInUse"
    ELSE IF ~rounds[r].is_active THEN "RoundNotActive"
    ELSE IF rounds[r].has_winner THEN "RoundAlreadyWon"
    ELSE IF ~(rounds[r].player_count < rounds[r].max_players)
         THEN "MaxPlayersReached"
    ELSE IF ~(now < rounds[r].expires_at) THEN "RoundExpired"
    ELSE IF lamports[player] < rounds[r].entry_fee_lamports
         THEN "ResultWithNegativeLamports"
    ELSE "Ok"

EnterRound(r, player) ==
    /\ enter_round_err(r, player) = "Ok"
    /\ LET fee == rounds[r].entry_fee_lamports
       IN  /\ lamports' = [lamports EXCEPT ![player] = @ - fee]
           /\ rounds' = [rounds EXCEPT ![r].lamports = @ + fee,
                                       ![r].pot_lamports = @ + fee,
                                       ![r].player_count = @ + 1]
           /\ ledger' = [ledger EXCEPT ![r].deposited = @ + fee]
    /\ player_entry' = (<<r, player>> :>
                           [player |-> player, round |-> r, entered_at |-> now])
                       @@ player_entry
    /\ UNCHANGED <<game_config, guess_record, leaderboard, now>>

\* ---------------------------------------------------------- submit_guess

\* submit_guess without the is_active / has_winner requirements.
submit_guess_err_nostate(r, player) ==
    IF r \notin DOMAIN rounds THEN "AccountNotInitialized"
    ELSE IF <<r, player>> \notin DOMAIN player_entry
         THEN "AccountNotInitialized"
    ELSE IF <<r, player>> \in guess_record THEN "AccountAlreadyInUse"
    ELSE IF player_entry[<<r, player>>].player # player THEN "ConstraintHasOne"
    ELSE IF player_entry[<<r, player>>].round # r THEN "ConstraintHasOne"
    ELSE IF ~(now < rounds[r].expires_at) THEN "RoundExpired"
    ELSE "Ok"

\* submit_guess with the GuessRecord `init` replaced by `init_if_needed`.
submit_guess_err_noreplay(r, player) ==
    IF r \notin DOMAIN rounds THEN "AccountNotInitialized"
    ELSE IF <<r, player>> \notin DOMAIN player_entry
         THEN "AccountNotInitialized"
    ELSE IF player_entry[<<r, player>>].player # player THEN "ConstraintHasOne"
    ELSE IF player_entry[<<r, player>>].round # r THEN "ConstraintHasOne"
    ELSE IF ~rounds[r].is_active THEN "RoundNotActive"
    ELSE IF rounds[r].has_winner THEN "RoundAlreadyWon"
    ELSE IF ~(now < rounds[r].expires_at) THEN "RoundExpired"
    ELSE "Ok"

\* submit_guess without the player_entry account in its context.
submit_guess_err_noentry(r, player) ==
    IF r \notin DOMAIN rounds THEN "AccountNotInitialized"
    ELSE IF <<r, player>> \in guess_record THEN "AccountAlreadyInUse"
    ELSE IF ~rounds[r].is_active THEN "RoundNotActive"
    ELSE IF rounds[r].has_winner THEN "RoundAlreadyWon"
    ELSE IF ~(now < rounds[r].expires_at) THEN "RoundExpired"
    ELSE "Ok"

submit_guess_err(r, player) ==
    IF r \notin DOMAIN rounds THEN "AccountNotInitialized"
    ELSE IF <<r, player>> \notin DOMAIN player_entry
         THEN "AccountNotInitialized"
    ELSE IF <<r, player>> \in guess_record THEN "AccountAlreadyInUse"
    ELSE IF player_entry[<<r, player>>].player # player THEN "ConstraintHasOne"
    ELSE IF player_entry[<<r, player>>].round # r THEN "ConstraintHasOne"
    ELSE IF ~rounds[r].is_active THEN "RoundNotActive"
    ELSE IF rounds[r].has_winner THEN "RoundAlreadyWon"
    ELSE IF ~(now < rounds[r].expires_at) THEN "RoundExpired"
    ELSE "Ok"

\* is_active left as it is by the winning guess.
is_active_after_win_kept(round) == round.is_active

is_active_after_win(round) == FALSE

SubmitGuess(r, player, guess) ==
    /\ submit_guess_err(r, player) = "Ok"
    /\ guess_record' = guess_record \cup {<<r, player>>}
    /\ rounds' = IF is_correct(rounds[r], guess)
                 THEN [rounds EXCEPT ![r].winner = player,
                                     ![r].has_winner = TRUE,
                                     ![r].is_active =
                                         is_active_after_win(rounds[r])]
                 ELSE rounds
    /\ UNCHANGED <<game_config, player_entry, leaderboard, lamports, now,
                   ledger>>

\* -------------------------------------------------------- distribute_pot

\* distribute_pot without the !round.pot_distributed constraint.
distribute_pot_err_noflag(r, winner, fee_receiver) ==
    IF r \notin DOMAIN rounds THEN "AccountNotInitialized"
    ELSE IF ~rounds[r].has_winner THEN "NoWinner"
    ELSE IF winner # rounds[r].winner THEN "Unauthorized"
    ELSE IF fee_receiver # game_config.authority THEN "Unauthorized"
    ELSE IF rounds[r].lamports < min_balance THEN "ArithmeticOverflow"
    ELSE "Ok"

\* distribute_pot that is also rejected from expires_at on.
distribute_pot_err_unexpired(r, winner, fee_receiver) ==
    IF r \notin DOMAIN rounds THEN "AccountNotInitialized"
    ELSE IF ~rounds[r].has_winner THEN "NoWinner"
    ELSE IF rounds[r].pot_distributed THEN "PotAlreadyDistributed"
    ELSE IF winner # rounds[r].winner THEN "Unauthorized"
    ELSE IF fee_receiver # game_config.authority THEN "Unauthorized"
    ELSE IF rounds[r].lamports < min_balance THEN "ArithmeticOverflow"
    ELSE IF ~(now < rounds[r].expires_at) THEN "RoundExpired"
    ELSE "Ok"

distribute_pot_err(r, winner, fee_receiver) ==
    IF r \notin DOMAIN rounds THEN "AccountNotInitialized"
    ELSE IF ~rounds[r].has_winner THEN "NoWinner"
    ELSE IF rounds[r].pot_distributed THEN "PotAlreadyDistributed"
    ELSE IF winner # rounds[r].winner THEN "Unauthorized"
    ELSE IF fee_receiver # game_config.authority THEN "Unauthorized"
    ELSE IF rounds[r].lamports < min_balance THEN "ArithmeticOverflow"
    ELSE "Ok"

distributable_of(round) ==
    Min(round.pot_lamports, round.lamports - min_balance)

\* The fee rounded up instead of truncated.
fee_of_ceil(distributable, fee_bps) ==
    (distributable * fee_bps + 9999) \div 10000

fee_of(distributable, fee_bps) == (distributable * fee_bps) \div 10000

\* The winner paid the whole distributable amount, the fee on top of it.
winner_amount_of_nofee(distributable, fee) == distributable

winner_amount_of(distributable, fee) == distributable - fee

\* The pot reduced by the winner's share only, the fee left in it.
pot_after_distribution_lessfee(pot, winner_amount) == pot - winner_amount

pot_after_distribution(pot, winner_amount) == 0

DistributePot(r, winner, fee_receiver) ==
    /\ distribute_pot_err(r, winner, fee_receiver) = "Ok"
    /\ LET winner_key == rounds[r].winner
           distributable == distributable_of(rounds[r])
           fee == fee_of(distributable, game_config.fee_basis_points)
           winner_amount == winner_amount_of(distributable, fee)
           paid == [lamports EXCEPT ![winner] = @ + winner_amount]
       IN  /\ lamports' = [paid EXCEPT ![fee_receiver] = @ + fee]
           /\ rounds' = [rounds EXCEPT ![r].lamports = @ - distributable,
                                       ![r].pot_distributed = TRUE,
                                       ![r].pot_lamports =
                                           pot_after_distribution(
                                               @, winner_amount)]
           /\ leaderboard' = sort_by(update_leaderboard(leaderboard,
                                                        winner_key,
                                                        winner_amount))
           /\ ledger' = [ledger EXCEPT ![r].to_winner = @ + winner_amount,
                                       ![r].to_fee = @ + fee,
                                       ![r].distributions = @ + 1]
    /\ UNCHANGED <<game_config, player_entry, guess_record, now>>

\* ------------------------------------------------------- mint_reward_nft

\* mint_reward_nft without the !round.nft_minted constraint.
mint_reward_nft_err_noflag(r, winner) ==
    IF r \notin DOMAIN rounds THEN "AccountNotInitialized"
    ELSE IF ~rounds[r].has_winner THEN "NoWinner"
    ELSE IF winner # rounds[r].winner THEN "Unauthorized"
    ELSE "Ok"

mint_reward_nft_err(r, winner) ==
    IF r \notin DOMAIN rounds THEN "AccountNotInitialized"
    ELSE IF ~rounds[r].has_winner THEN "NoWinner"
    ELSE IF rounds[r].nft_minted THEN "NftAlreadyMinted"
    ELSE IF winner # rounds[r].winner THEN "Unauthorized"
    ELSE "Ok"

\* The step taken when the Metaplex Core CPI succeeds; when the CPI fails
\* the transaction aborts and nothing changes.
MintRewardNft(r, winner, asset) ==
    /\ mint_reward_nft_err(r, winner) = "Ok"
    /\ rounds' = [rounds EXCEPT ![r].nft_minted = TRUE]
    /\ UNCHANGED <<game_config, player_entry, guess_record, leaderboard,
                   lamports, now, ledger>>

\* ----------------------------------------------------------- close_round

expired_no_winner(round) == now >= round.expires_at /\ ~round.has_winner

\* won_and_distributed without the pot_distributed conjunct.
won_and_distributed_nodist(round) == round.has_winner

won_and_distributed(round) == round.has_winner /\ round.pot_distributed

\* close_round that also requires the round to be active still.
close_round_err_once(r, signer) ==
    IF r \notin DOMAIN rounds THEN "AccountNotInitialized"
    ELSE IF signer # game_config.authority THEN "ConstraintHasOne"
    ELSE IF ~(expired_no_winner(rounds[r]) \/ won_and_distributed(rounds[r]))
         THEN "RoundStillActive"
    ELSE IF ~rounds[r].is_active /\ ~rounds[r].has_winner
         THEN "RoundNotActive"
    ELSE "Ok"

\* close_round without has_one = authority on game_config.
close_round_err_anysigner(r, signer) ==
    IF r \notin DOMAIN rounds THEN "AccountNotInitialized"
    ELSE IF ~(expired_no_winner(rounds[r]) \/ won_and_distributed(rounds[r]))
         THEN "RoundStillActive"
    ELSE "Ok"

close_round_err(r, signer) ==
    IF r \notin DOMAIN rounds THEN "AccountNotInitialized"
    ELSE IF signer # game_config.authority THEN "ConstraintHasOne"
    ELSE IF ~(expired_no_winner(rounds[r]) \/ won_and_distributed(rounds[r]))
         THEN "RoundStillActive"
    ELSE IF /\ ~rounds[r].has_winner
            /\ rounds[r].pot_lamports > 0
            /\ rounds[r].lamports < min_balance
         THEN "ArithmeticOverflow"
    ELSE "Ok"

\* The refund taken from the whole balance of the round account.
refund_of_all(round) ==
    IF ~round.has_winner /\ round.pot_lamports > 0
    THEN round.lamports
    ELSE 0

refund_of(round) ==
    IF ~round.has_winner /\ round.pot_lamports > 0
    THEN Min(round.pot_lamports, round.lamports - min_balance)
    ELSE 0

\* is_active toggled instead of cleared.
is_active_after_close_toggle(round) == ~round.is_active

is_active_after_close(round) == FALSE

CloseRound(r, signer) ==
    /\ close_round_err(r, signer) = "Ok"
    /\ LET refund == refund_of(rounds[r])
       IN  /\ lamports' = [lamports EXCEPT ![signer] = @ + refund]
           /\ rounds' = [rounds EXCEPT ![r].lamports = @ - refund,
                                       ![r].pot_lamports = 0,
                                       ![r].is_active =
                                           is_active_after_close(rounds[r])]
           /\ ledger' = [ledger EXCEPT
                            ![r].refunded = @ + refund,
                            ![r].closes = IF @ = "never" THEN "once"
                                          ELSE "repeatedly"]
    /\ UNCHANGED <<game_config, player_entry, guess_record, leaderboard, now>>

\* ------------------------------------------------------------------ next

RoundIds == 0..(MaxRounds - 1)
Assets == {"asset"}

Next ==
    \/ Tick
    \/ \E signer \in Accounts, word_hash \in WordHashes,
          max_players \in MaxPlayersChoices, duration_seconds \in Durations :
          CreateRound(signer, word_hash, max_players, duration_seconds)
    \/ \E r \in RoundIds, player \in Accounts : EnterRound(r, player)
    \/ \E r \in RoundIds, player \in Accounts, guess \in Guesses :
          SubmitGuess(r, player, guess)
    \/ \E r \in RoundIds, winner \in Accounts, fee_receiver \in Accounts :
          DistributePot(r, winner, fee_receiver)
    \/ \E r \in RoundIds, winner \in Accounts, asset \in Assets :
          MintRewardNft(r, winner, asset)
    \/ \E r \in RoundIds, signer \in Accounts : CloseRound(r, signer)

Spec == Init /\ [][Next]_vars

\* The clock sysvar keeps advancing; instructions arrive only when somebody
\* sends them, so no instruction is fair.
SpecClock == Spec /\ WF_vars(Tick)

\* ---------------------------------------------------- leaderboard filling
\* Rounds played one after the other, each by one wallet that enters,
\* guesses the word and is paid: the first MAX_ENTRIES rounds by a wallet
\* that has not won yet, the later ones by any wallet of LateWinners, listed
\* or not.

LBRounds == 53
LBLamports == 2000

WalletSeq ==
    << "w01", "w02", "w03", "w04", "w05", "w06", "w07", "w08",
       "w09", "w10", "w11", "w12", "w13", "w14", "w15", "w16",
       "w17", "w18", "w19", "w20", "w21", "w22", "w23", "w24",
       "w25", "w26", "w27", "w28", "w29", "w30", "w31", "w32",
       "w33", "w34", "w35", "w36", "w37", "w38", "w39", "w40",
       "w41", "w42", "w43", "w44", "w45", "w46", "w47", "w48",
       "w49", "w50", "w51", "w52" >>

Wallets == {WalletSeq[i] : i \in 1..Len(WalletSeq)}

LateWinners == {"w01", "w02", "w50", "w51", "w52"}

candidates(r) == IF r < MAX_ENTRIES THEN {WalletSeq[r + 1]} ELSE LateWinners

current_round == game_config.round_count - 1

InitLB ==
    /\ initialize_game_err(500) = "Ok"
    /\ game_config = [authority |-> "op",
                      round_count |-> 0,
                      entry_fee_lamports |-> 1000,
                      fee_basis_points |-> 500]
    /\ rounds = <<>>
    /\ player_entry = <<>>
    /\ guess_record = {}
    /\ leaderboard = <<>>
    /\ lamports = [a \in {"op"} \cup Wallets |-> LBLamports]
    /\ now = 0
    /\ ledger = <<>>

CreateRoundLB ==
    /\ game_config.round_count < LBRounds
    /\ game_config.round_count > 0 => rounds[current_round].pot_distributed
    /\ create_round("op", hash(<<"a">>), 1, 1)

EnterRoundLB ==
    /\ current_round \in DOMAIN rounds
    /\ \E player \in candidates(current_round) :
          EnterRound(current_round, player)

SubmitGuessLB ==
    /\ current_round \in DOMAIN rounds
    /\ \E player \in candidates(current_round) :
          SubmitGuess(current_round, player, <<"a">>)

DistributePotLB ==
    /\ current_round \in DOMAIN rounds
    /\ DistributePot(current_round, rounds[current_round].winner, "op")

NextLB ==
    \/ CreateRoundLB
    \/ EnterRoundLB
    \/ SubmitGuessLB
    \/ DistributePotLB

SpecLB == InitLB /\ [][NextLB]_vars

\* ------------------------------------------------------------ large pots
\* The same program with pots near u64::MAX. Amounts are counted in units of
\* 10^10 lamports (an amount a stands for a * 10^10 lamports), the rent
\* floor of a round account stays the offset min_balance under its pot, and
\* the entry fees and fee rates are such that every fee is a whole number
\* of units. In Spec every amount is below 2^31 lamports and the product
\* distributable * fee_bps is far from u64::MAX.

\* u64::MAX = 18446744073709551615, in units of 10^10 lamports.
U64_MAX_UNITS == 1844674407

StakeLamports == 2000000
StakeEntryFees == {1844670, 1844680}
StakeFeeBasisPoints == {0, 1000}

\* distributable.checked_mul(fee_bps as u64) is None: the product of
\* distributable * 10^10 lamports and fee_bps is above u64::MAX.
checked_mul_is_none(distributable, fee_bps) ==
    /\ fee_bps > 0
    /\ distributable > U64_MAX_UNITS \div fee_bps

distribute_pot_err_units(r, winner, fee_receiver) ==
    IF distribute_pot_err(r, winner, fee_receiver) # "Ok"
    THEN distribute_pot_err(r, winner, fee_receiver)
    ELSE IF checked_mul_is_none(distributable_of(rounds[r]),
                                game_config.fee_basis_points)
         THEN "ArithmeticOverflow"
    ELSE "Ok"

InitStake ==
    /\ \E entry_fee_lamports \in StakeEntryFees,
          fee_basis_points \in StakeFeeBasisPoints :
          /\ initialize_game_err(fee_basis_points) = "Ok"
          /\ game_config = [authority |-> "op",
                            round_count |-> 0,
                            entry_fee_lamports |-> entry_fee_lamports,
                            fee_basis_points |-> fee_basis_points]
    /\ rounds = <<>>
    /\ player_entry = <<>>
    /\ guess_record = {}
    /\ leaderboard = <<>>
    /\ lamports = [a \in Accounts |-> StakeLamports]
    /\ now = 0
    /\ ledger = <<>>

\* The clock runs on as long as a round has not reached its expires_at.
TickStake ==
    /\ \/ now < MaxTime
       \/ \E r \in DOMAIN rounds : now < rounds[r].expires_at
    /\ now' = now + 1
    /\ UNCHANGED <<game_config, rounds, player_entry, guess_record,
                   leaderboard, lamports, ledger>>

DistributePotStake(r, winner, fee_receiver) ==
    /\ distribute_pot_err_units(r, winner, fee_receiver) = "Ok"
    /\ DistributePot(r, winner, fee_receiver)

NextStake ==
    \/ TickStake
    \/ \E signer \in Accounts, word_hash \in WordHashes,
          max_players \in MaxPlayersChoices, duration_seconds \in Durations :
          CreateRound(signer, word_hash, max_players, duration_seconds)
    \/ \E r \in RoundIds, player \in Accounts : EnterRound(r, player)
    \/ \E r \in RoundIds, player \in Accounts, guess \in Guesses :
          SubmitGuess(r, player, guess)
    \/ \E r \in RoundIds, winner \in Accounts, fee_receiver \in Accounts :
          DistributePotStake(r, winner, fee_receiver)
    \/ \E r \in RoundIds, winner \in Accounts, asset \in Assets :
          MintRewardNft(r, winner, asset)
    \/ \E r \in RoundIds, signer \in Accounts : CloseRound(r, signer)

\* The clock keeps advancing, and distribute_pot and close_round are sent
\* again and again for every round for which they can go through.
SpecStake ==
    /\ InitStake
    /\ [][NextStake]_vars
    /\ WF_vars(TickStake)
    /\ \A r \in RoundIds :
          /\ WF_vars(\E winner \in Accounts, fee_receiver \in Accounts :
                        DistributePotStake(r, winner, fee_receiver))
          /\ WF_vars(\E signer \in Accounts : CloseRound(r, signer))

\* ================================================================ claims

authority == game_config.authority

entrants(r) == {p \in Accounts : <<r, p>> \in DOMAIN player_entry}

moved_out(r) == ledger[r].to_winner + ledger[r].to_fee + ledger[r].refunded

\* ---------------------------------------------------------------- C1
\* C1: for every round the lamports moved out of its escrow (winner payout
\* + operator fee + operator refund) never exceed the entry fees paid in,
\* the escrow holds exactly the rent floor plus what came in minus what
\* went out, and once the round is distributed or closed everything that
\* came in has gone out.
C1_Conservation ==
    \A r \in DOMAIN rounds :
        /\ moved_out(r) <= ledger[r].deposited
        /\ rounds[r].lamports = min_balance + ledger[r].deposited - moved_out(r)
        /\ (rounds[r].pot_distributed \/ ledger[r].closes # "never")
               => moved_out(r) = ledger[r].deposited

C1_Witness ==
    \E r \in DOMAIN rounds :
        /\ rounds[r].pot_distributed
        /\ ledger[r].deposited = 3000
        /\ moved_out(r) = 3000

\* ---------------------------------------------------------------- C2
\* C2: a successful distribute_pot on a round with pot P and fee rate
\* 0 <= rate <= 1000 pays fee = floor(d * rate / 10000) to the operator and
\* d - fee to the round's winner, d = min(P, escrow - rent floor), and
\* leaves pot = 0 and pot_distributed = TRUE; rate 500 on a pot of 3000
\* gives 150 and 2850.
C2_FeeSplit ==
    [][\A r \in DOMAIN rounds :
          ledger'[r].distributions # ledger[r].distributions =>
              LET P == rounds[r].pot_lamports
                  rate == game_config.fee_basis_points
                  d == IF P <= rounds[r].lamports - min_balance
                       THEN P ELSE rounds[r].lamports - min_balance
                  fee_amount == ledger'[r].to_fee - ledger[r].to_fee
                  winner_amount == ledger'[r].to_winner - ledger[r].to_winner
              IN  /\ 0 <= rate /\ rate <= 1000
                  /\ fee_amount * 10000 <= d * rate
                  /\ d * rate < (fee_amount + 1) * 10000
                  /\ winner_amount + fee_amount = d
                  /\ rounds'[r].lamports = rounds[r].lamports - d
                  /\ \A a \in Accounts :
                        lamports'[a] = lamports[a]
                            + (IF a = rounds[r].winner THEN winner_amount ELSE 0)
                            + (IF a = authority THEN fee_amount ELSE 0)
                  /\ rounds'[r].pot_lamports = 0
                  /\ rounds'[r].pot_distributed
                  /\ (rate = 500 /\ P = 3000) =>
                        (fee_amount = 150 /\ winner_amount = 2850)
      ]_vars

C2_Witness ==
    \E r \in DOMAIN rounds :
        /\ game_config.fee_basis_points = 500
        /\ rounds[r].player_count = 3
        /\ ledger[r].distributions = 1
        /\ ledger[r].to_fee = 150
        /\ ledger[r].to_winner = 2850
        /\ rounds[r].pot_lamports = 0
        /\ rounds[r].pot_distributed

\* ---------------------------------------------------------------- C3
\* C3: distribute_pot succeeds at most once per round; it is rejected with
\* NoWinner while the round has no winner and with PotAlreadyDistributed
\* after a successful distribution, whichever accounts are passed.
C3_DistributeOnce ==
    \A r \in DOMAIN rounds :
        /\ ledger[r].distributions <= 1
        /\ \A w \in Accounts, f \in Accounts :
              /\ ~rounds[r].has_winner =>
                    distribute_pot_err(r, w, f) = "NoWinner"
              /\ ledger[r].distributions >= 1 =>
                    /\ distribute_pot_err(r, w, f) = "PotAlreadyDistributed"
                    /\ ~ENABLED DistributePot(r, w, f)

C3_Witness ==
    \E r \in DOMAIN rounds :
        /\ ledger[r].distributions = 1
        /\ ledger[r].to_winner > 0

\* ---------------------------------------------------------------- C4
\* C4: once a round has a winner it keeps that winner; from then on every
\* submit_guess and every enter_round on the round is rejected, so the
\* round's guess records, entries, player_count and deposits stay as they
\* were when the winning guess landed.
C4_WinnerFinal ==
    /\ [](\A r \in DOMAIN rounds :
             rounds[r].has_winner =>
                 /\ ~rounds[r].is_active
                 /\ \A p \in Accounts :
                       /\ enter_round_err(r, p) # "Ok"
                       /\ submit_guess_err(r, p) # "Ok"
                       /\ ~ENABLED EnterRound(r, p)
                       /\ \A g \in Guesses : ~ENABLED SubmitGuess(r, p, g))
    /\ [][\A r \in DOMAIN rounds :
             rounds[r].has_winner =>
                 /\ rounds'[r].has_winner
                 /\ rounds'[r].winner = rounds[r].winner
                 /\ rounds'[r].player_count = rounds[r].player_count
                 /\ ledger'[r].deposited = ledger[r].deposited
                 /\ \A p \in Accounts :
                       /\ (<<r, p>> \in guess_record')
                             <=> (<<r, p>> \in guess_record)
                       /\ (<<r, p>> \in DOMAIN player_entry')
                             <=> (<<r, p>> \in DOMAIN player_entry)
         ]_vars

\* A won round with a second entrant who has not guessed yet.
C4_Witness ==
    \E r \in DOMAIN rounds, p \in Accounts :
        /\ rounds[r].has_winner
        /\ p # rounds[r].winner
        /\ <<r, p>> \in DOMAIN player_entry
        /\ <<r, p>> \notin guess_record
        /\ now < rounds[r].expires_at

\* ---------------------------------------------------------------- C5
\* C5 (as the claim states it): after a player's submit_guess succeeded in
\* a round, a later submit_guess by that player in that round is rejected
\* with the program's AlreadyGuessed error.
C5_AlreadyGuessedCode ==
    \A r \in DOMAIN rounds, p \in Accounts :
        <<r, p>> \in guess_record => submit_guess_err(r, p) = "AlreadyGuessed"

\* C5 (amended): after a player's submit_guess succeeded in a round, every
\* later submit_guess by that player in that round is rejected when the
\* GuessRecord account is created, before any round-state check, with the
\* host's account-already-in-use error, whatever the guess text and
\* whether the round is active, won or expired.
C5_NoSecondGuess ==
    \A r \in DOMAIN rounds, p \in Accounts :
        <<r, p>> \in guess_record =>
            /\ submit_guess_err(r, p) = "AccountAlreadyInUse"
            /\ \A g \in Guesses : ~ENABLED SubmitGuess(r, p, g)

\* A player who guessed wrong in a round that is still open to guesses.
C5_Witness ==
    \E r \in DOMAIN rounds, p \in Accounts :
        /\ <<r, p>> \in guess_record
        /\ rounds[r].is_active
        /\ ~rounds[r].has_winner
        /\ now < rounds[r].expires_at

\* ---------------------------------------------------------------- C6
\* C6 (as the claim states it): after a player's enter_round succeeded in
\* a round, a later enter_round by that player in that round is rejected
\* with the program's AlreadyEntered error.
C6_AlreadyEnteredCode ==
    \A r \in DOMAIN rounds, p \in Accounts :
        <<r, p>> \in DOMAIN player_entry =>
            enter_round_err(r, p) = "AlreadyEntered"

\* C6 (amended): after a player's enter_round succeeded in a round, every
\* later enter_round by that player in that round is rejected when the
\* PlayerEntry account is created, with the host's account-already-in-use
\* error, and changes nothing; each player pays the entry fee at most once
\* per round and player_count is the number of distinct entrants.
C6_NoSecondEntry ==
    [](\A r \in DOMAIN rounds :
          /\ \A p \in entrants(r) :
                /\ enter_round_err(r, p) = "AccountAlreadyInUse"
                /\ ~ENABLED EnterRound(r, p)
          /\ rounds[r].player_count = Cardinality(entrants(r))
          /\ ledger[r].deposited
                = Cardinality(entrants(r)) * rounds[r].entry_fee_lamports)

\* An entrant who could pay again, in a round with a free slot that is
\* active and not expired.
C6_Witness ==
    \E r \in DOMAIN rounds, p \in Accounts :
        /\ <<r, p>> \in DOMAIN player_entry
        /\ rounds[r].is_active
        /\ ~rounds[r].has_winner
        /\ rounds[r].player_count < rounds[r].max_players
        /\ now < rounds[r].expires_at
        /\ lamports[p] >= rounds[r].entry_fee_lamports

\* ---------------------------------------------------------------- C7
\* C7: submit_guess by a player with no PlayerEntry for the round is
\* rejected and leaves no GuessRecord and no winner; so the winner of a
\* round is always one of its entrants, whose entry fee is in the deposits.
C7_GuessNeedsEntry ==
    [](\A r \in DOMAIN rounds :
          /\ \A p \in Accounts \ entrants(r) :
                /\ submit_guess_err(r, p) # "Ok"
                /\ \A g \in Guesses : ~ENABLED SubmitGuess(r, p, g)
                /\ <<r, p>> \notin guess_record
                /\ rounds[r].winner # p
          /\ rounds[r].has_winner =>
                /\ rounds[r].winner \in entrants(r)
                /\ player_entry[<<r, rounds[r].winner>>].player
                      = rounds[r].winner
                /\ ledger[r].deposited >= rounds[r].entry_fee_lamports)

\* A won round that some wallet never entered.
C7_Witness ==
    \E r \in DOMAIN rounds :
        /\ rounds[r].has_winner
        /\ Accounts \ entrants(r) # {}

\* ---------------------------------------------------------------- C8
\* C8: close_round succeeds only when (now >= expires_at and no winner) or
\* (winner and pot_distributed); in every other state the operator's call
\* is rejected with RoundStillActive, in particular on a won round whose
\* pot is not distributed, also after expires_at, and on a winnerless round
\* before expires_at.
C8_CloseGuard ==
    [](\A r \in DOMAIN rounds, signer \in Accounts :
          LET closable ==
                  \/ (now >= rounds[r].expires_at /\ ~rounds[r].has_winner)
                  \/ (rounds[r].has_winner /\ rounds[r].pot_distributed)
          IN  /\ close_round_err(r, signer) = "Ok" => closable
              /\ ENABLED CloseRound(r, signer) => closable
              /\ closable => close_round_err(r, authority) = "Ok"
              /\ ~closable =>
                    /\ close_round_err(r, authority) = "RoundStillActive"
                    /\ ~ENABLED CloseRound(r, signer))

\* A won round past expires_at whose pot is still in escrow.
C8_Witness ==
    \E r \in DOMAIN rounds :
        /\ rounds[r].has_winner
        /\ ~rounds[r].pot_distributed
        /\ rounds[r].pot_lamports > 0
        /\ now >= rounds[r].expires_at

\* ---------------------------------------------------------------- C9
\* C9 (as the claim states it): close_round never succeeds twice on the
\* same round.
C9_CloseSucceedsOnce ==
    \A r \in DOMAIN rounds : ledger[r].closes # "repeatedly"

\* C9 (amended): after close_round succeeded on a round, a later
\* close_round by the operator passes the same precondition check and
\* succeeds again, but transfers nothing and leaves the round and every
\* balance as they were (pot is 0 and is_active is FALSE already).
C9_CloseIdempotent ==
    /\ [](\A r \in DOMAIN rounds :
             ledger[r].closes # "never" =>
                 /\ close_round_err(r, authority) = "Ok"
                 /\ ENABLED CloseRound(r, authority)
                 /\ rounds[r].pot_lamports = 0
                 /\ ~rounds[r].is_active)
    /\ [][\A r \in DOMAIN rounds :
             (ledger[r].closes # "never" /\ ledger'[r].closes # ledger[r].closes)
                 => /\ rounds' = rounds
                    /\ lamports' = lamports
                    /\ ledger'[r].refunded = ledger[r].refunded
                    /\ UNCHANGED <<game_config, player_entry, guess_record,
                                   leaderboard, now>>
         ]_vars

\* An expired round that was refunded and then closed again.
C9_Witness ==
    \E r \in DOMAIN rounds :
        /\ ledger[r].closes = "repeatedly"
        /\ ~rounds[r].has_winner
        /\ ledger[r].refunded > 0

\* --------------------------------------------------------------- C10
\* C10: a successful close_round on a round without winner happens at or
\* after expires_at and moves the whole residual pot
\* min(pot, escrow - rent floor) to the operator and to nobody else, sets
\* pot = 0 and is_active = FALSE; with pot = 0 it moves nothing; and over
\* any sequence of close_round calls the pot is refunded at most once.
C10_RefundToOperator ==
    /\ [](\A r \in DOMAIN rounds :
             /\ ledger[r].refunded \in {0, ledger[r].deposited}
             /\ ledger[r].refunded > 0 => ~rounds[r].has_winner)
    /\ [][\A r \in DOMAIN rounds :
             (ledger'[r].closes # ledger[r].closes /\ ~rounds[r].has_winner) =>
                 LET pot == rounds[r].pot_lamports
                     room == rounds[r].lamports - min_balance
                     residual == IF pot <= room THEN pot ELSE room
                     paid == ledger'[r].refunded - ledger[r].refunded
                 IN  /\ now >= rounds[r].expires_at
                     /\ paid = residual
                     /\ lamports' = [lamports EXCEPT ![authority] = @ + residual]
                     /\ rounds'[r].lamports = rounds[r].lamports - residual
                     /\ rounds'[r].pot_lamports = 0
                     /\ ~rounds'[r].is_active
                     /\ pot = 0 => (lamports' = lamports /\ paid = 0)
                     /\ ledger[r].refunded > 0 => paid = 0
         ]_vars

\* Two players entered, nobody won, the operator was refunded both fees.
C10_Witness ==
    \E r \in DOMAIN rounds :
        /\ ~rounds[r].has_winner
        /\ rounds[r].player_count = 2
        /\ ledger[r].closes # "never"
        /\ ledger[r].refunded = 2000
        /\ rounds[r].pot_lamports = 0
        /\ ~rounds[r].is_active

\* --------------------------------------------------------------- C11
\* C11 (as the claim states it): is_active never goes from FALSE to TRUE
\* and every round goes from TRUE to FALSE exactly once, so every round
\* is inactive at some point of its life.
C11_DeactivatedExactlyOnce ==
    /\ [][\A r \in DOMAIN rounds :
             ~rounds[r].is_active => ~rounds'[r].is_active]_vars
    /\ \A r \in RoundIds :
          [](r \in DOMAIN rounds
                => <>(r \in DOMAIN rounds /\ ~rounds[r].is_active))

\* C11 (amended): is_active never goes from FALSE to TRUE, so it goes from
\* TRUE to FALSE at most once, and only at the winning guess or at a
\* close_round of a round without winner; a round that is neither won nor
\* closed stays active.
C11_ActiveMonotone ==
    [][\A r \in DOMAIN rounds :
          /\ ~rounds[r].is_active => ~rounds'[r].is_active
          /\ (rounds[r].is_active /\ ~rounds'[r].is_active) =>
                \/ /\ ~rounds[r].has_winner
                   /\ rounds'[r].has_winner
                   /\ <<r, rounds'[r].winner>> \in guess_record'
                   /\ <<r, rounds'[r].winner>> \notin guess_record
                \/ /\ ~rounds[r].has_winner
                   /\ ~rounds'[r].has_winner
                   /\ ledger[r].closes = "never"
                   /\ ledger'[r].closes = "once"
      ]_vars

\* A round closed more than once, inactive since the first close.
C11_Witness ==
    \E r \in DOMAIN rounds :
        /\ ~rounds[r].is_active
        /\ ledger[r].closes = "repeatedly"

\* --------------------------------------------------------------- C12
\* C12: in every state the balance of a round's escrow is at least its pot
\* and at least the rent floor (indeed at least their sum), and it changes
\* only in enter_round, distribute_pot and close_round.
C12_EscrowFloor ==
    /\ [](\A r \in DOMAIN rounds :
             /\ rounds[r].pot_lamports >= 0
             /\ rounds[r].lamports >= rounds[r].pot_lamports
             /\ rounds[r].lamports >= min_balance
             /\ rounds[r].lamports >= min_balance + rounds[r].pot_lamports)
    /\ [][\A r \in DOMAIN rounds :
             rounds'[r].lamports # rounds[r].lamports =>
                 \/ ledger'[r].deposited # ledger[r].deposited
                 \/ ledger'[r].distributions # ledger[r].distributions
                 \/ ledger'[r].closes # ledger[r].closes
         ]_vars

\* An escrow that held two entry fees and was drained to the rent floor by
\* the operator's refund.
C12_Witness ==
    \E r \in DOMAIN rounds :
        /\ ledger[r].deposited = 2000
        /\ ledger[r].refunded = 2000
        /\ rounds[r].lamports = min_balance

\* --------------------------------------------------------------- C13
\* C13: on a round that is otherwise eligible, enter_round and submit_guess
\* succeed when now < expires_at and are rejected with RoundExpired when
\* now = expires_at or later, creating no PlayerEntry or GuessRecord.
C13_StrictExpiry ==
    [](\A r \in DOMAIN rounds, p \in Accounts :
          LET open == rounds[r].is_active /\ ~rounds[r].has_winner
              can_enter == /\ open
                           /\ <<r, p>> \notin DOMAIN player_entry
                           /\ rounds[r].player_count < rounds[r].max_players
                           /\ lamports[p] >= rounds[r].entry_fee_lamports
              can_guess == /\ open
                           /\ <<r, p>> \in DOMAIN player_entry
                           /\ <<r, p>> \notin guess_record
          IN  /\ (can_enter /\ now < rounds[r].expires_at) =>
                    /\ enter_round_err(r, p) = "Ok"
                    /\ ENABLED EnterRound(r, p)
              /\ (can_enter /\ now >= rounds[r].expires_at) =>
                    /\ enter_round_err(r, p) = "RoundExpired"
                    /\ ~ENABLED EnterRound(r, p)
              /\ (can_guess /\ now < rounds[r].expires_at) =>
                    /\ submit_guess_err(r, p) = "Ok"
                    /\ \A g \in Guesses : ENABLED SubmitGuess(r, p, g)
              /\ (can_guess /\ now >= rounds[r].expires_at) =>
                    /\ submit_guess_err(r, p) = "RoundExpired"
                    /\ \A g \in Guesses : ~ENABLED SubmitGuess(r, p, g))

\* now = expires_at on an open round with an entrant who has not guessed
\* and a wallet that could still enter.
C13_Witness ==
    \E r \in DOMAIN rounds, p \in Accounts, q \in Accounts :
        /\ now = rounds[r].expires_at
        /\ rounds[r].is_active
        /\ ~rounds[r].has_winner
        /\ <<r, p>> \in DOMAIN player_entry
        /\ <<r, p>> \notin guess_record
        /\ <<r, q>> \notin DOMAIN player_entry
        /\ rounds[r].player_count < rounds[r].max_players
        /\ lamports[q] >= rounds[r].entry_fee_lamports

\* --------------------------------------------------------------- C14
\* C14: player_count <= max_players in every state; on an open round with
\* player_count = max_players a new player's enter_round is rejected with
\* MaxPlayersReached; and when two players can both take the last open
\* slot, the entry of one leaves the other rejected with MaxPlayersReached
\* and its wallet untouched.
C14_SlotLimit ==
    /\ [](\A r \in DOMAIN rounds :
             /\ rounds[r].player_count <= rounds[r].max_players
             /\ \A p \in Accounts :
                   ( /\ rounds[r].is_active
                     /\ ~rounds[r].has_winner
                     /\ <<r, p>> \notin DOMAIN player_entry
                     /\ rounds[r].player_count = rounds[r].max_players )
                   => /\ enter_round_err(r, p) = "MaxPlayersReached"
                      /\ ~ENABLED EnterRound(r, p))
    /\ [][\A r \in DOMAIN rounds, p \in Accounts, q \in Accounts :
             ( /\ p # q
               /\ rounds[r].player_count + 1 = rounds[r].max_players
               /\ enter_round_err(r, p) = "Ok"
               /\ enter_round_err(r, q) = "Ok"
               /\ <<r, p>> \in DOMAIN player_entry' )
             => /\ rounds'[r].player_count = rounds'[r].max_players
                /\ <<r, q>> \notin DOMAIN player_entry'
                /\ enter_round_err(r, q)' = "MaxPlayersReached"
                /\ lamports'[q] = lamports[q]
         ]_vars

\* A one-slot round taken by one player while another wallet that can pay
\* is turned away.
C14_Witness ==
    \E r \in DOMAIN rounds, q \in Accounts :
        /\ rounds[r].max_players = 1
        /\ rounds[r].player_count = 1
        /\ rounds[r].is_active
        /\ now < rounds[r].expires_at
        /\ <<r, q>> \notin DOMAIN player_entry
        /\ lamports[q] >= rounds[r].entry_fee_lamports

\* --------------------------------------------------------------- C15
\* C15: mint_reward_nft sets nft_minted at most once per round and only on
\* a round with a winner: it is rejected with NoWinner while has_winner is
\* FALSE and with NftAlreadyMinted once nft_minted is TRUE; on a won round
\* it can go through whether or not the pot is distributed, and
\* distribute_pot can go through whether or not the reward is minted.
C15_MintOnce ==
    /\ [](\A r \in DOMAIN rounds :
             /\ ~rounds[r].has_winner =>
                   /\ ~rounds[r].nft_minted
                   /\ \A w \in Accounts :
                         mint_reward_nft_err(r, w) = "NoWinner"
             /\ rounds[r].nft_minted =>
                   \A w \in Accounts, a \in Assets :
                       /\ mint_reward_nft_err(r, w) = "NftAlreadyMinted"
                       /\ ~ENABLED MintRewardNft(r, w, a)
             /\ (rounds[r].has_winner /\ ~rounds[r].nft_minted) =>
                   \A a \in Assets :
                       ENABLED MintRewardNft(r, rounds[r].winner, a)
             /\ (rounds[r].has_winner /\ ~rounds[r].pot_distributed) =>
                   ENABLED DistributePot(r, rounds[r].winner, authority))
    /\ [][\A r \in DOMAIN rounds :
             rounds[r].nft_minted => rounds'[r].nft_minted]_vars

\* The reward minted while the pot is still in escrow.
C15_Witness ==
    \E r \in DOMAIN rounds :
        /\ rounds[r].nft_minted
        /\ ~rounds[r].pot_distributed
        /\ rounds[r].pot_lamports > 0

\* --------------------------------------------------------------- C17
\* C17 (as the claim states it): once close_round has succeeded on a round,
\* no step changes any field of that round.
C17_ClosedFrozen ==
    [][\A r \in DOMAIN rounds :
          ledger[r].closes # "never" => rounds'[r] = rounds[r]]_vars

\* C17 (amended): once close_round has succeeded on a round, enter_round,
\* submit_guess and distribute_pot are rejected on it, its entries, guess
\* records and money flows stay as they are, and the only field of the round
\* that can still change is nft_minted, set once by mint_reward_nft on a
\* won round; a further close_round succeeds and changes no field.
C17_ClosedButMintable ==
    /\ [](\A r \in DOMAIN rounds :
             ledger[r].closes # "never" =>
                 /\ \A p \in Accounts :
                       /\ enter_round_err(r, p) # "Ok"
                       /\ submit_guess_err(r, p) # "Ok"
                       /\ \A f \in Accounts :
                             distribute_pot_err(r, p, f) # "Ok"
                 /\ ENABLED CloseRound(r, authority))
    /\ [][\A r \in DOMAIN rounds :
             ledger[r].closes # "never" =>
                 /\ rounds'[r] =
                       [rounds[r] EXCEPT !.nft_minted = rounds'[r].nft_minted]
                 /\ rounds[r].nft_minted => rounds'[r].nft_minted
                 /\ rounds'[r].nft_minted # rounds[r].nft_minted =>
                       rounds[r].has_winner
                 /\ ledger'[r].deposited = ledger[r].deposited
                 /\ ledger'[r].to_winner = ledger[r].to_winner
                 /\ ledger'[r].to_fee = ledger[r].to_fee
                 /\ ledger'[r].refunded = ledger[r].refunded
                 /\ ledger'[r].distributions = ledger[r].distributions
                 /\ \A p \in Accounts :
                       /\ <<r, p>> \in DOMAIN player_entry'
                             <=> <<r, p>> \in DOMAIN player_entry
                       /\ <<r, p>> \in guess_record'
                             <=> <<r, p>> \in guess_record
         ]_vars

\* A won round closed first and minted afterwards.
C17_Witness ==
    \E r \in DOMAIN rounds :
        /\ ledger[r].closes # "never"
        /\ rounds[r].nft_minted
        /\ \E a \in Assets : ~ENABLED MintRewardNft(r, rounds[r].winner, a)
        /\ ledger[r].distributions = 1
        /\ ENABLED CloseRound(r, authority)

\* --------------------------------------------------------------- C18
\* C18: every round satisfies expires_at > created_at.
C18_ExpiresAfterCreated ==
    \A r \in DOMAIN rounds : rounds[r].expires_at > rounds[r].created_at

\* --------------------------------------------------------------- C19
\* C19: in every state of every round pot_distributed implies has_winner,
\* nft_minted implies has_winner, and once the pot is distributed or the
\* round closed the pot is 0 and stays 0.
C19_FlagsAndEmptyPot ==
    /\ [](\A r \in DOMAIN rounds :
             /\ rounds[r].pot_distributed => rounds[r].has_winner
             /\ rounds[r].nft_minted => rounds[r].has_winner
             /\ (rounds[r].pot_distributed \/ ledger[r].closes # "never")
                   => rounds[r].pot_lamports = 0)
    /\ [][\A r \in DOMAIN rounds :
             /\ rounds[r].pot_distributed => rounds'[r].pot_distributed
             /\ ledger[r].closes # "never" => ledger'[r].closes # "never"
             /\ (rounds[r].pot_distributed \/ ledger[r].closes # "never")
                   => rounds'[r].pot_lamports = 0
         ]_vars

\* A round whose pot of two entry fees was paid out, with the reward minted.
C19_Witness ==
    \E r \in DOMAIN rounds :
        /\ rounds[r].pot_distributed
        /\ rounds[r].nft_minted
        /\ ledger[r].deposited = 2000
        /\ ledger[r].to_winner + ledger[r].to_fee = 2000
        /\ rounds[r].pot_lamports = 0

\* --------------------------------------------------------------- C16
listed(entries, p) == \E i \in 1..Len(entries) : entries[i].player = p

entry_set(entries) == {entries[i] : i \in 1..Len(entries)}

\* C16: the leaderboard never holds more than MAX_ENTRIES entries; every
\* distribute_pot pays the winner; with the board full and the winner not
\* listed it leaves the entries as they are; for a listed winner it adds 1
\* to that entry's wins and winner_amount to its total_winnings and touches
\* no other entry; no entry is ever dropped and no wins or total_winnings
\* ever decreases; nothing but distribute_pot changes the board.
C16_LeaderboardCap ==
    /\ [](Len(leaderboard) <= MAX_ENTRIES)
    /\ [][\A r \in DOMAIN rounds :
             (~rounds[r].pot_distributed /\ rounds'[r].pot_distributed) =>
                 LET w == rounds[r].winner
                     amount == ledger'[r].to_winner - ledger[r].to_winner
                     old == entry_set(leaderboard)
                 IN  /\ amount > 0
                     /\ lamports'[w] = lamports[w] + amount
                     /\ (~listed(leaderboard, w)
                           /\ Len(leaderboard) = MAX_ENTRIES)
                          => leaderboard' = leaderboard
                     /\ (~listed(leaderboard, w)
                           /\ Len(leaderboard) < MAX_ENTRIES)
                          => entry_set(leaderboard') =
                                old \cup {[player |-> w, wins |-> 1,
                                           total_winnings |-> amount]}
                     /\ listed(leaderboard, w)
                          => \E e \in old :
                                /\ e.player = w
                                /\ entry_set(leaderboard') =
                                     (old \ {e}) \cup
                                     {[e EXCEPT
                                         !.wins = @ + 1,
                                         !.total_winnings = @ + amount]}
         ]_vars
    /\ [][/\ \A i \in 1..Len(leaderboard) :
                \E j \in 1..Len(leaderboard') :
                    /\ leaderboard'[j].player = leaderboard[i].player
                    /\ leaderboard'[j].wins >= leaderboard[i].wins
                    /\ leaderboard'[j].total_winnings
                          >= leaderboard[i].total_winnings
          /\ leaderboard' # leaderboard =>
                \E r \in DOMAIN rounds :
                    ~rounds[r].pot_distributed /\ rounds'[r].pot_distributed
         ]_vars

\* A full board after a 51st distinct winner was paid without being listed
\* and a listed wallet won a second time.
C16_Witness ==
    /\ Len(leaderboard) = MAX_ENTRIES
    /\ \E r \in DOMAIN rounds :
          /\ rounds[r].pot_distributed
          /\ ~listed(leaderboard, rounds[r].winner)
          /\ ledger[r].to_winner = 950
          /\ lamports[rounds[r].winner] = LBLamports - 1000 + 950
    /\ \E i \in 1..Len(leaderboard) :
          /\ leaderboard[i].wins = 2
          /\ leaderboard[i].total_winnings = 1900

\* --------------------------------------------------------------- C20
position(entries, p) == CHOOSE i \in 1..Len(entries) : entries[i].player = p

\* C20: in every state the leaderboard holds each player at most once and
\* its wins never increase from one entry to the next; and across every
\* step two entries that have equal wins afterwards stand in the order they
\* had before.
C20_SortedStable ==
    /\ [](\A i \in 1..Len(leaderboard), j \in 1..Len(leaderboard) :
             /\ (i # j) => leaderboard[i].player # leaderboard[j].player
             /\ (i < j) => leaderboard[i].wins >= leaderboard[j].wins)
    /\ [][\A i \in 1..Len(leaderboard), j \in 1..Len(leaderboard) :
             LET pi == position(leaderboard', leaderboard[i].player)
                 pj == position(leaderboard', leaderboard[j].player)
             IN  ( /\ i < j
                   /\ listed(leaderboard', leaderboard[i].player)
                   /\ listed(leaderboard', leaderboard[j].player)
                   /\ leaderboard'[pi].wins = leaderboard'[pj].wins )
                 => pi < pj
         ]_vars

\* The last listed wallet has won again and moved to the head, then the
\* second one has won and lined up behind it, ahead of the first.
C20_Witness ==
    /\ Len(leaderboard) = MAX_ENTRIES
    /\ leaderboard[1].player = "w50" /\ leaderboard[1].wins = 2
    /\ leaderboard[2].player = "w02" /\ leaderboard[2].wins = 2
    /\ leaderboard[3].player = "w01" /\ leaderboard[3].wins = 1
    /\ leaderboard[4].player = "w03" /\ leaderboard[4].wins = 1

\* --------------------------------------------------------------- C21
\* C21 (as the claim states it): a won round is inactive, and an entry or
\* guess on a won round fails with RoundNotActive, AlreadyEntered or
\* AlreadyGuessed.
C21_WonRejectedAsInactive ==
    \A r \in DOMAIN rounds, p \in Accounts :
        rounds[r].has_winner =>
            /\ ~rounds[r].is_active
            /\ enter_round_err(r, p) \in {"RoundNotActive", "AlreadyEntered"}
            /\ submit_guess_err(r, p) \in {"RoundNotActive", "AlreadyGuessed"}

\* C21 (amended): a won round is inactive, so RoundAlreadyWon is never the
\* failing check of enter_round or submit_guess; on a won round enter_round
\* fails with the account-already-in-use error for an entrant and with
\* RoundNotActive for anybody else, and submit_guess fails with the
\* account-not-initialized error for a wallet without entry, with the
\* account-already-in-use error for an entrant who has guessed and with
\* RoundNotActive for an entrant who has not.
C21_WonIsInactive ==
    [](\A r \in DOMAIN rounds, p \in Accounts :
          /\ rounds[r].has_winner => ~rounds[r].is_active
          /\ enter_round_err(r, p) # "RoundAlreadyWon"
          /\ submit_guess_err(r, p) # "RoundAlreadyWon"
          /\ rounds[r].has_winner =>
                /\ enter_round_err(r, p) =
                      IF <<r, p>> \in DOMAIN player_entry
                      THEN "AccountAlreadyInUse"
                      ELSE "RoundNotActive"
                /\ submit_guess_err(r, p) =
                      IF <<r, p>> \notin DOMAIN player_entry
                      THEN "AccountNotInitialized"
                      ELSE IF <<r, p>> \in guess_record
                      THEN "AccountAlreadyInUse"
                      ELSE "RoundNotActive")

\* A won round before expires_at with a free slot, an entrant who has not
\* guessed and a wallet that has not entered and could pay.
C21_Witness ==
    \E r \in DOMAIN rounds, p \in Accounts, q \in Accounts :
        /\ rounds[r].has_winner
        /\ now < rounds[r].expires_at
        /\ rounds[r].player_count < rounds[r].max_players
        /\ <<r, p>> \in DOMAIN player_entry
        /\ <<r, p>> \notin guess_record
        /\ <<r, q>> \notin DOMAIN player_entry
        /\ lamports[q] >= rounds[r].entry_fee_lamports

\* --------------------------------------------------------------- C22
\* What the operator's wallet has received from the escrow of round r.
operator_received(r) ==
    ledger[r].to_fee + ledger[r].refunded
        + (IF rounds[r].has_winner /\ rounds[r].winner = authority
           THEN ledger[r].to_winner ELSE 0)

\* C22 (as the claim states it): from the escrow of a won round the
\* operator receives at most floor(pot * fee rate / 10000).
C22_OperatorGetsFeeOnly ==
    \A r \in DOMAIN rounds :
        rounds[r].has_winner =>
            operator_received(r) * 10000
                <= ledger[r].deposited * game_config.fee_basis_points

\* C22 (amended): no refund is ever paid out of a won round and close_round
\* moves no lamports on it; distribute_pot stays callable on a won round
\* until it has run, whatever the clock; the fee paid is at most
\* floor(pot * fee rate / 10000) and the winner is paid the rest; so the
\* operator receives at most the fee unless the winner is the operator's
\* own wallet, which then receives the whole pot.
C22_NoRefundOnceWon ==
    /\ [](\A r \in DOMAIN rounds :
             rounds[r].has_winner =>
                 /\ ledger[r].refunded = 0
                 /\ refund_of(rounds[r]) = 0
                 /\ ~rounds[r].pot_distributed =>
                       /\ distribute_pot_err(r, rounds[r].winner, authority)
                             = "Ok"
                       /\ ENABLED DistributePot(r, rounds[r].winner, authority)
                       /\ ledger[r].to_fee = 0 /\ ledger[r].to_winner = 0
                 /\ rounds[r].pot_distributed =>
                       /\ ledger[r].to_fee * 10000
                             <= ledger[r].deposited
                                   * game_config.fee_basis_points
                       /\ ledger[r].to_winner
                             = ledger[r].deposited - ledger[r].to_fee
                 /\ operator_received(r) =
                       IF rounds[r].winner = authority
                       THEN ledger[r].to_fee + ledger[r].to_winner
                       ELSE ledger[r].to_fee)
    /\ [][\A r \in DOMAIN rounds :
             (rounds[r].has_winner /\ ledger'[r].closes # ledger[r].closes)
                 => /\ lamports' = lamports
                    /\ rounds'[r].lamports = rounds[r].lamports
                    /\ rounds[r].pot_distributed
         ]_vars

\* A round won by a player other than the operator, paid out and closed,
\* seen at or after expires_at: fee to the operator, the rest to the
\* winner, nothing refunded.
C22_Witness ==
    \E r \in DOMAIN rounds :
        /\ rounds[r].has_winner
        /\ rounds[r].winner # authority
        /\ now >= rounds[r].expires_at
        /\ ledger[r].closes # "never"
        /\ ledger[r].to_fee > 0
        /\ ledger[r].to_winner > 0
        /\ ledger[r].refunded = 0
        /\ operator_received(r) = ledger[r].to_fee
        /\ rounds[r].lamports = min_balance

\* --------------------------------------------------------------- C23
\* C23: with the clock advancing and distribute_pot and close_round sent
\* fairly, every round eventually has pot = 0 and is_active = FALSE.
C23_NoStakeLocked ==
    \A r \in RoundIds :
        [](r \in DOMAIN rounds =>
              <>(/\ r \in DOMAIN rounds
                 /\ rounds[r].pot_lamports = 0
                 /\ ~rounds[r].is_active))

====
